---- MODULE Spec2Model ----
(***************************************************************************)
(* Fan-out/fan-in worker-pool pipeline of mdemidenko/monitoring-platform.  *)
(*                                                                         *)
(* internal/notifier/service.go: TelegramService.ProcessWithIntervals      *)
(* starts numWorkers notificationWorker goroutines, one job source         *)
(* (sendNotificationsWithIntervals), one completion watcher (wg.Wait,      *)
(* close(results), done <- true) and runs processResults in the caller.    *)
(* Every goroutine is a process with a program counter; one action is one  *)
(* channel operation or one select.  A Go select with several ready cases  *)
(* picks any of them, so every ready case is a separate enabled action.    *)
(*                                                                         *)
(* internal/monitor/service.go: service.FilterServicesBatch is the same     *)
(* pool in the monitor command: repository.GetServices feeds servicesChan, *)
(* the workers filter into resultsChan, a coordination goroutine closes    *)
(* resultsChan after wg.Wait, and processWithContext's counting goroutine  *)
(* drains it.  mode selects which pipeline a behaviour runs.               *)
(***************************************************************************)
EXTENDS Integers, Sequences, FiniteSets

\* Bounds of the model.
MaxItems == 2
MaxWorkers == 2

VARIABLES
    mode,           \* the pipeline that runs: ProcessWithIntervals with the job source
                    \* "paced" (sendNotificationsWithIntervals) or "immediate"
                    \* (sendAllNotifications), or "monitor" (FilterServicesBatch)
    notifications,  \* the batch: notifications[i] = TRUE when processing item i fails on its own
    numWorkers,     \* numWorkers argument (monitor: workers, from cfg.Workers)
    interval,       \* interval argument of ProcessWithIntervals, in ticker periods
    ctxDone,        \* ctx.Done() is closed (cancellation signal set)
    jobs,           \* buffered items of the jobs channel
    jobsClosed,     \* close(jobs) has happened
    results,        \* buffered workerResults of the results channel
    resultsClosed,  \* close(results) has happened
    wg,             \* sync.WaitGroup counter
    spc,            \* job source: program counter
    sentCount,      \* job source: sentCount (paced) / loop index (immediate)
    wpc,            \* worker w: program counter
    wjob,           \* worker w: the notification it holds (0: none)
    werr,           \* worker w: err returned by ProcessEntity
    watcher,        \* completion watcher: program counter
    cpc,            \* collector (processResults): program counter
    successCount,   \* processResults: successCount
    errorCount,     \* processResults: errorCount
    ret,            \* the ProcessResult returned to the caller (NoResult before)
    fault,          \* a runtime panic of the Go program ("none" when there is none)
    storageNotifications, \* MemoryStorage: len(m.notifications)
    storageSentNotifications, \* MemoryStorage: len(m.sentNotifications)
    \* history variables, read by the properties only
    retPath,        \* the return statement processResults took
    admittedAtCancel, \* sentCount at the moment the signal was set (-1: not set)
    emitted,        \* emitted[i]: number of Outcomes sent on results for item i
    wearly,         \* worker w dequeued the item it holds before the signal was set
    reordered,      \* the collector counted an item before an earlier one
    ticks,          \* number of ticks the paced source has taken from ticker.C
    \* the monitor pipeline
    services,       \* input file content: services[i] = TRUE when service i matches the filter
    inputOK,        \* the input file can be read and parsed
    rpc,            \* GetServices goroutine: program counter
    rsent,          \* GetServices goroutine: services sent so far
    servicesChan,   \* buffered services of servicesChan
    servicesClosed, \* close(servicesChan) has happened
    readErrChan,    \* buffered errors of GetServices' errChan
    readErrClosed,  \* close(errChan) has happened
    mpc,            \* filter worker w: program counter
    msvc,           \* filter worker w: the service it holds (0: none)
    resultsChan,    \* buffered Results of resultsChan
    resultsChanClosed, \* close(resultsChan) has happened
    coord,          \* coordination goroutine: program counter
    procErrChan,    \* buffered errors of procErrChan
    procErrClosed,  \* close(procErrChan) has happened
    gpc,            \* counting goroutine of processWithContext: program counter
    gres,           \* counting goroutine: the Result it holds (0: none)
    resultCount,    \* processWithContext: resultCount
    collectedResults, \* buffered Results of collectedResults
    collectedClosed,  \* close(collectedResults) has happened
    resultsSent,    \* history: number of Results the filter workers sent
    outputOK,       \* the output file can be created and written
    vpc,            \* SaveResults goroutine: program counter
    allResults,     \* SaveResults goroutine: allResults
    outputFile,     \* Results in the output file (<<>>: not written)
    saveErrChan,    \* buffered errors of SaveResults' errChan
    saveErrClosed,  \* close(errChan) of SaveResults has happened
    ppc,            \* processWithContext and main: program counter
    saveErr,        \* processWithContext: saveErr
    pret,           \* the error processWithContext returns ("none" before)
    req,            \* BatchHandler: interval_ms and workers of the request body
    hpc,            \* BatchHandler: program counter
    call            \* BatchHandler: interval and numWorkers it passes on

batchVars == <<req, hpc, call>>
argVars == <<mode, notifications, numWorkers, interval, batchVars>>
jobsVars == <<jobs, jobsClosed>>
resultsVars == <<results, resultsClosed>>
srcVars == <<spc, sentCount>>
wkVars == <<wpc, wjob, werr, wearly, wg>>
storageVars == <<storageNotifications, storageSentNotifications>>
collVars == <<cpc, successCount, errorCount, ret, retPath>>
histVars == <<admittedAtCancel, emitted, reordered, ticks>>

\* the notifier pipeline's own state (wg is shared by name with the monitor's)
notifierOwn == <<jobsVars, resultsVars, srcVars, wpc, wjob, werr, wearly,
                 watcher, collVars, histVars>>
notifierVars == <<notifierOwn, wg>>

inputVars == <<services, inputOK, outputOK>>
saveVars == <<vpc, allResults, outputFile, saveErrChan, saveErrClosed>>
callVars == <<ppc, saveErr, pret>>
readerVars == <<rpc, rsent, servicesChan, servicesClosed, readErrChan,
                readErrClosed>>
filterVars == <<mpc, msvc>>
outVars == <<resultsChan, resultsChanClosed, resultsSent>>
coordVars == <<coord, procErrChan, procErrClosed>>
countVars == <<gpc, gres, resultCount, collectedResults, collectedClosed>>
monitorVars == <<inputVars, readerVars, filterVars, outVars, coordVars,
                 countVars, saveVars, callVars>>

vars == <<argVars, ctxDone, fault, storageVars, notifierVars, monitorVars>>

NoResult == [SuccessCount |-> -1, ErrorCount |-> -1]

N == Len(notifications)
Items == 1..N
Workers == 1..numWorkers

\* a jobs queue one slot short of the batch
JobsCapShort == Len(notifications) - 1

\* make(chan *models.Notification, len(notifications))
JobsCap == Len(notifications)
\* make(chan *workerResult, len(notifications))
ResultsCap == Len(notifications)

\* ProcessResult{SuccessCount: successCount, ErrorCount: errorCount}
ProcessResult(s, e) == [SuccessCount |-> s, ErrorCount |-> e]

RECURSIVE SumTo(_, _)
SumTo(f, k) == IF k = 0 THEN 0 ELSE f[k] + SumTo(f, k - 1)
\* number of Outcomes the workers have sent on results
OutcomesSent == SumTo(emitted, N)

\* resultsChan := make(chan models.Result, 100)
ResultsChanCap == 100
\* servicesChan := make(chan models.Service, 100)
ServicesChanCap == 100
\* collectedResults := make(chan models.Result, 100)
CollectedCap == 100
\* errChan := make(chan error, 1)
ErrChanCap == 1
\* procErrChan := make(chan error, 1)
ProcErrChanCap == 1

\* the interval argument: none (0) or a positive duration.  BatchHandler passes
\* a positive one; ProcessWithIntervals itself takes any time.Duration.
Intervals == {0, 1}

Batches == UNION {[1..n -> BOOLEAN] : n \in 0..MaxItems}

\* time.Duration is a signed 64-bit count of nanoseconds.  The model keeps its
\* arithmetic, the multiplication by the unit and the wrap-around, in a word of
\* DurationBits bits that counts microseconds.
DurationBits == 24
\* time.Millisecond
Millisecond == 1000
\* time.Second
Second == 1000 * Millisecond

\* the value a signed word of DurationBits bits holds after an operation whose
\* exact result is x
WrapDuration(x) ==
    ((x + 2^(DurationBits - 1)) % 2^DurationBits) - 2^(DurationBits - 1)

\* the largest interval_ms whose Duration is exact
MaxExactMs == (2^(DurationBits - 1) - 1) \div Millisecond

\* interval_ms and workers of a request body: absent or 0, below, inside and
\* above the ranges the binding tags name, small and large
RequestIntervals == {-1, 0, 1, 500, MaxExactMs, MaxExactMs + 1}
RequestWorkers == {-1, 0, 1, 2, 10, 11}

NoCall == [interval |-> 0, workers |-> 0]

\* The state once ProcessWithIntervals (FilterServicesBatch and the counting
\* goroutine of processWithContext) has made its channels and started its
\* goroutines; the other pipeline does not exist.
Init ==
    /\ mode \in {"paced", "immediate", "monitor", "batch"}
    /\ notifications \in (IF mode = "monitor" THEN {<<>>} ELSE Batches)
    /\ services \in (IF mode = "monitor" THEN Batches ELSE {<<>>})
    /\ inputOK \in (IF mode = "monitor" THEN BOOLEAN ELSE {TRUE})
    /\ numWorkers \in (IF mode = "batch" THEN {0} ELSE 0..MaxWorkers)
    /\ req \in (IF mode = "batch"
                THEN [IntervalMs : RequestIntervals, Workers : RequestWorkers]
                ELSE {[IntervalMs |-> 0, Workers |-> 0]})
    /\ hpc = IF mode = "batch" THEN "bind" ELSE "none"
    /\ call = NoCall
    /\ interval \in (IF mode = "paced" THEN Intervals ELSE {0})
    /\ ctxDone = FALSE
    /\ jobs = <<>>
    /\ jobsClosed = FALSE
    /\ results = <<>>
    /\ resultsClosed = FALSE
    /\ wg = numWorkers
    /\ spc = CASE mode = "paced" -> IF interval > 0 THEN "select" ELSE "start"
                [] mode = "immediate" -> "range"
                [] OTHER -> "none"
    /\ sentCount = 0
    /\ wpc = [w \in 1..numWorkers |-> IF mode = "monitor" THEN "none" ELSE "select"]
    /\ wjob = [w \in 1..numWorkers |-> 0]
    /\ werr = [w \in 1..numWorkers |-> FALSE]
    /\ watcher = IF mode \in {"paced", "immediate"} THEN "wait" ELSE "none"
    /\ cpc = IF mode \in {"paced", "immediate"} THEN "select" ELSE "none"
    /\ successCount = 0
    /\ errorCount = 0
    /\ ret = NoResult
    /\ fault = "none"
    /\ storageNotifications = 0
    /\ storageSentNotifications = 0
    /\ retPath = "none"
    /\ admittedAtCancel = -1
    /\ emitted = [i \in 1..Len(notifications) |-> 0]
    /\ wearly = [w \in 1..numWorkers |-> FALSE]
    /\ reordered = FALSE
    /\ ticks = 0
    /\ rpc = IF mode = "monitor" THEN "start" ELSE "none"
    /\ rsent = 0
    /\ servicesChan = <<>>
    /\ servicesClosed = FALSE
    /\ readErrChan = <<>>
    /\ readErrClosed = FALSE
    /\ mpc = [w \in 1..numWorkers |-> IF mode = "monitor" THEN "range" ELSE "none"]
    /\ msvc = [w \in 1..numWorkers |-> 0]
    /\ resultsChan = <<>>
    /\ resultsChanClosed = FALSE
    /\ coord = IF mode = "monitor" THEN "wait" ELSE "none"
    /\ procErrChan = <<>>
    /\ procErrClosed = FALSE
    /\ gpc = IF mode = "monitor" THEN "range" ELSE "none"
    /\ gres = 0
    /\ resultCount = 0
    /\ collectedResults = <<>>
    /\ collectedClosed = FALSE
    /\ resultsSent = 0
    /\ outputOK \in (IF mode = "monitor" THEN BOOLEAN ELSE {TRUE})
    /\ vpc = IF mode = "monitor" THEN "select" ELSE "none"
    /\ allResults = <<>>
    /\ outputFile = <<>>
    /\ saveErrChan = <<>>
    /\ saveErrClosed = FALSE
    /\ ppc = IF mode = "monitor" THEN "select" ELSE "none"
    /\ saveErr = "nil"
    /\ pret = "none"

----------------------------------------------------------------------------
\* The environment: the caller's context is cancelled.

\* a panic ends the process, and so does the return of main: nothing runs
\* after either
Running(m) == fault = "none" /\ mode = m /\ ppc # "exited"
NotifierRunning == fault = "none" /\ mode \in {"paced", "immediate"}

Cancel ==
    /\ fault = "none"
    /\ ppc # "exited"
    /\ ~ctxDone
    /\ ctxDone' = TRUE
    /\ admittedAtCancel' = sentCount
    /\ UNCHANGED <<argVars, storageVars, jobsVars, resultsVars, srcVars, wkVars, watcher,
                   collVars, fault, emitted, reordered, ticks, monitorVars>>

----------------------------------------------------------------------------
\* Channel operations of the Go runtime.

\* close(jobs): closing a closed channel panics
CloseJobs ==
    IF jobsClosed
    THEN fault' = "close of closed channel: jobs" /\ UNCHANGED jobsClosed
    ELSE jobsClosed' = TRUE /\ UNCHANGED fault

\* jobs <- notification is ready: room in the buffer, or the channel is closed
\* (the send then panics)
CanSendJobs == jobsClosed \/ Len(jobs) < JobsCap

\* jobs <- notifications[i]
SendJobs(i) ==
    IF jobsClosed
    THEN fault' = "send on closed channel: jobs" /\ UNCHANGED jobs
    ELSE jobs' = Append(jobs, i) /\ UNCHANGED fault

\* results <- &workerResult{...} is ready
CanSendResults == resultsClosed \/ Len(results) < ResultsCap

\* results <- r
SendResults(r) ==
    IF resultsClosed
    THEN fault' = "send on closed channel: results" /\ UNCHANGED results
    ELSE results' = Append(results, r) /\ UNCHANGED fault

----------------------------------------------------------------------------
\* Job source, paced: sendNotificationsWithIntervals.

\* ticker := time.NewTicker(interval): panics when interval <= 0.  With a
\* positive interval the call only creates the ticker, and the source starts at
\* its select.
SrcNewTicker ==
    /\ Running("paced")
    /\ spc = "start"
    /\ interval <= 0
    /\ fault' = "non-positive interval for NewTicker"
    /\ UNCHANGED monitorVars
    /\ UNCHANGED <<argVars, storageVars, ctxDone, jobsVars, resultsVars, srcVars, wkVars,
                   watcher, collVars, histVars>>

\* SrcCtxDone without its return: the loop goes on after close(jobs)
SrcCtxDoneNoReturn ==
    /\ Running("paced")
    /\ spc = "select"
    /\ ctxDone
    /\ CloseJobs
    /\ UNCHANGED monitorVars
    /\ UNCHANGED <<argVars, storageVars, ctxDone, jobs, resultsVars, srcVars, wkVars,
                   watcher, collVars, histVars>>

\* outer select, case <-ctx.Done(): close(jobs); return
SrcCtxDone ==
    /\ Running("paced")
    /\ spc = "select"
    /\ ctxDone
    /\ CloseJobs
    /\ spc' = "exited"
    /\ UNCHANGED monitorVars
    /\ UNCHANGED <<argVars, storageVars, ctxDone, jobs, resultsVars, sentCount,
                   wkVars, watcher, collVars, histVars>>

\* outer select, case <-ticker.C (the ticker of time.NewTicker(interval) fires
\* and the select takes the tick): all sent -> close(jobs); return, otherwise
\* go on to the inner select with notifications[sentCount]
SrcTick ==
    /\ Running("paced")
    /\ spc = "select"
    /\ IF sentCount >= Len(notifications)
       THEN CloseJobs /\ spc' = "exited"
       ELSE spc' = "enqueue" /\ UNCHANGED <<jobsClosed, fault>>
    /\ ticks' = ticks + 1
    /\ UNCHANGED monitorVars
    /\ UNCHANGED <<argVars, storageVars, ctxDone, jobs, resultsVars, sentCount,
                   wkVars, watcher, collVars, admittedAtCancel, emitted,
                   reordered>>

\* inner select, case <-ctx.Done(): close(jobs); return
SrcEnqueueCtxDone ==
    /\ Running("paced")
    /\ spc = "enqueue"
    /\ ctxDone
    /\ CloseJobs
    /\ spc' = "exited"
    /\ UNCHANGED monitorVars
    /\ UNCHANGED <<argVars, storageVars, ctxDone, jobs, resultsVars, sentCount,
                   wkVars, watcher, collVars, histVars>>

\* SrcEnqueue of a source that goes on to the next item without waiting for the
\* next tick
SrcEnqueueBurst ==
    /\ Running("paced")
    /\ spc = "enqueue"
    /\ CanSendJobs
    /\ SendJobs(sentCount + 1)
    /\ sentCount' = sentCount + 1
    /\ spc' = IF sentCount + 1 < Len(notifications) THEN "enqueue" ELSE "select"
    /\ UNCHANGED monitorVars
    /\ UNCHANGED <<argVars, storageVars, ctxDone, jobsClosed, resultsVars, wkVars,
                   watcher, collVars, histVars>>

\* inner select, case jobs <- notification: sentCount++
SrcEnqueue ==
    /\ Running("paced")
    /\ spc = "enqueue"
    /\ CanSendJobs
    /\ SendJobs(sentCount + 1)
    /\ sentCount' = sentCount + 1
    /\ spc' = "select"
    /\ UNCHANGED monitorVars
    /\ UNCHANGED <<argVars, storageVars, ctxDone, jobsClosed, resultsVars, wkVars,
                   watcher, collVars, histVars>>

----------------------------------------------------------------------------
\* Job source, immediate: sendAllNotifications.  sentCount is the loop index.

\* one turn of the range loop: after the last item close(jobs); otherwise the
\* select with default: ctx.Done() ready -> close(jobs); return, else default
SrcAllNext ==
    /\ Running("immediate")
    /\ spc = "range"
    /\ IF sentCount >= Len(notifications) \/ ctxDone
       THEN CloseJobs /\ spc' = "exited"
       ELSE spc' = "send" /\ UNCHANGED <<jobsClosed, fault>>
    /\ UNCHANGED monitorVars
    /\ UNCHANGED <<argVars, storageVars, ctxDone, jobs, resultsVars, sentCount,
                   wkVars, watcher, collVars, histVars>>

\* default: jobs <- notification (a plain blocking send)
SrcAllSend ==
    /\ Running("immediate")
    /\ spc = "send"
    /\ CanSendJobs
    /\ SendJobs(sentCount + 1)
    /\ sentCount' = sentCount + 1
    /\ spc' = "range"
    /\ UNCHANGED monitorVars
    /\ UNCHANGED <<argVars, storageVars, ctxDone, jobsClosed, resultsVars, wkVars,
                   watcher, collVars, histVars>>

----------------------------------------------------------------------------
\* Worker: notificationWorker.

\* ProcessEntity(ctx, notification) as seen by the worker: "operation
\* cancelled" when ctx.Err() is set on entry (also in SendNotification and in
\* the HTTP request bound to ctx), else the item's own outcome
ProcessEntity(i) == ctxDone \/ notifications[i]

\* return, with the deferred wg.Done()
WkExit(w) ==
    /\ wpc' = [wpc EXCEPT ![w] = "exited"]
    /\ wjob' = [wjob EXCEPT ![w] = 0]
    /\ werr' = [werr EXCEPT ![w] = FALSE]
    /\ wearly' = [wearly EXCEPT ![w] = FALSE]
    /\ wg' = wg - 1

\* back to the top of the for loop
WkLoop(w) ==
    /\ wpc' = [wpc EXCEPT ![w] = "select"]
    /\ wjob' = [wjob EXCEPT ![w] = 0]
    /\ werr' = [werr EXCEPT ![w] = FALSE]
    /\ wearly' = [wearly EXCEPT ![w] = FALSE]
    /\ UNCHANGED wg

\* select, case <-ctx.Done(): return
WkCtxDone(w) ==
    /\ NotifierRunning
    /\ wpc[w] = "select"
    /\ ctxDone
    /\ WkExit(w)
    /\ UNCHANGED monitorVars
    /\ UNCHANGED <<argVars, storageVars, ctxDone, jobsVars, resultsVars, srcVars, watcher,
                   collVars, fault, histVars>>

\* WkRecv of a queue that hands out its newest item first
WkRecvNewest(w) ==
    /\ NotifierRunning
    /\ wpc[w] = "select"
    /\ jobs # <<>>
    /\ jobs' = SubSeq(jobs, 1, Len(jobs) - 1)
    /\ wjob' = [wjob EXCEPT ![w] = jobs[Len(jobs)]]
    /\ wearly' = [wearly EXCEPT ![w] = ~ctxDone]
    /\ wpc' = [wpc EXCEPT ![w] = "process"]
    /\ UNCHANGED monitorVars
    /\ UNCHANGED <<argVars, storageVars, ctxDone, jobsClosed, resultsVars, srcVars, werr, wg,
                   watcher, collVars, fault, histVars>>

\* select, case notification, ok := <-jobs with ok = true
WkRecv(w) ==
    /\ NotifierRunning
    /\ wpc[w] = "select"
    /\ jobs # <<>>
    /\ jobs' = Tail(jobs)
    /\ wjob' = [wjob EXCEPT ![w] = Head(jobs)]
    /\ wearly' = [wearly EXCEPT ![w] = ~ctxDone]
    /\ wpc' = [wpc EXCEPT ![w] = "process"]
    /\ UNCHANGED monitorVars
    /\ UNCHANGED <<argVars, storageVars, ctxDone, jobsClosed, resultsVars, srcVars, werr, wg,
                   watcher, collVars, fault, histVars>>

\* select, case notification, ok := <-jobs with ok = false: return
WkJobsClosed(w) ==
    /\ NotifierRunning
    /\ wpc[w] = "select"
    /\ jobs = <<>>
    /\ jobsClosed
    /\ WkExit(w)
    /\ UNCHANGED monitorVars
    /\ UNCHANGED <<argVars, storageVars, ctxDone, jobsVars, resultsVars, srcVars, watcher,
                   collVars, fault, histVars>>

\* MemoryStorage.Store(notification): m.notifications = append(m.notifications, v)
\* without any lock.  The statement reads the slice header and writes it back
\* one element longer.  Alone it adds the element; while another worker is
\* inside ProcessEntity too the two statements race, and the element this
\* worker appended is kept or overwritten by the other worker's write.
Store(w) ==
    storageNotifications' \in
        IF \E v \in Workers \ {w} : wpc[v] = "process"
        THEN {storageNotifications, storageNotifications + 1}
        ELSE {storageNotifications + 1}

\* MemoryStorage.Store(sentNotif): m.sentNotifications =
\* append(m.sentNotifications, v), as unguarded as the append of Store
StoreSent(w) ==
    storageSentNotifications' \in
        IF \E v \in Workers \ {w} : wpc[v] = "process"
        THEN {storageSentNotifications, storageSentNotifications + 1}
        ELSE {storageSentNotifications + 1}

\* what ProcessEntity(ctx, notification) leaves in the storage: nothing when
\* ctx.Err() is set on entry; otherwise the Notification, and after a
\* successful SendNotification the SentNotification it returned
StoreEntities(w) ==
    IF ctxDone
    THEN UNCHANGED storageVars
    ELSE /\ Store(w)
         /\ IF notifications[wjob[w]]
            THEN UNCHANGED storageSentNotifications
            ELSE StoreSent(w)

\* err := s.ProcessEntity(ctx, notification): with ctx.Err() set it returns
\* before Store; otherwise it stores the notification and sends it
WkProcess(w) ==
    /\ NotifierRunning
    /\ wpc[w] = "process"
    /\ StoreEntities(w)
    /\ werr' = [werr EXCEPT ![w] = ProcessEntity(wjob[w])]
    /\ wpc' = [wpc EXCEPT ![w] = "emit"]
    /\ UNCHANGED monitorVars
    /\ UNCHANGED <<argVars, ctxDone, jobsVars, resultsVars, srcVars, wjob,
                   wearly, wg, watcher, collVars, fault, histVars>>

\* emit select, case <-ctx.Done(): return without sending the result
WkEmitCtxDone(w) ==
    /\ NotifierRunning
    /\ wpc[w] = "emit"
    /\ ctxDone
    /\ WkExit(w)
    /\ UNCHANGED monitorVars
    /\ UNCHANGED <<argVars, storageVars, ctxDone, jobsVars, resultsVars, srcVars, watcher,
                   collVars, fault, histVars>>

\* WkEmit with a worker that gives up after a failed item: it sends the error
\* result and returns
WkEmitStopsOnError(w) ==
    /\ NotifierRunning
    /\ wpc[w] = "emit"
    /\ CanSendResults
    /\ SendResults([Text |-> wjob[w], Error |-> werr[w]])
    /\ emitted' = [emitted EXCEPT ![wjob[w]] = @ + 1]
    /\ IF werr[w] THEN WkExit(w) ELSE WkLoop(w)
    /\ UNCHANGED monitorVars
    /\ UNCHANGED <<argVars, storageVars, ctxDone, jobsVars, resultsClosed, srcVars,
                   watcher, collVars, admittedAtCancel, reordered, ticks>>

\* emit select, case results <- &workerResult{Text, Error: err}; then loop
WkEmit(w) ==
    /\ NotifierRunning
    /\ wpc[w] = "emit"
    /\ CanSendResults
    /\ SendResults([Text |-> wjob[w], Error |-> werr[w]])
    /\ emitted' = [emitted EXCEPT ![wjob[w]] = @ + 1]
    /\ WkLoop(w)
    /\ UNCHANGED monitorVars
    /\ UNCHANGED <<argVars, storageVars, ctxDone, jobsVars, resultsClosed, srcVars,
                   watcher, collVars, admittedAtCancel, reordered, ticks>>

----------------------------------------------------------------------------
\* Completion watcher: go func() { wg.Wait(); close(results); done <- true }()

\* WgWait of a watcher that does not wait for the workers
WgNoWait == TRUE

\* wg.Wait() returns
WgWait == wg = 0

\* WatcherClose of a watcher that never signals done
WatcherCloseNoDone ==
    /\ NotifierRunning
    /\ watcher = "wait"
    /\ WgWait
    /\ IF resultsClosed
       THEN fault' = "close of closed channel: results" /\ UNCHANGED resultsClosed
       ELSE resultsClosed' = TRUE /\ UNCHANGED fault
    /\ watcher' = "exited"
    /\ UNCHANGED monitorVars
    /\ UNCHANGED <<argVars, storageVars, ctxDone, jobsVars, results, srcVars, wkVars,
                   collVars, histVars>>

\* wg.Wait(); close(results); next: done <- true
WatcherClose ==
    /\ NotifierRunning
    /\ watcher = "wait"
    /\ WgWait
    /\ IF resultsClosed
       THEN fault' = "close of closed channel: results" /\ UNCHANGED resultsClosed
       ELSE resultsClosed' = TRUE /\ UNCHANGED fault
    /\ watcher' = "senddone"
    /\ UNCHANGED monitorVars
    /\ UNCHANGED <<argVars, storageVars, ctxDone, jobsVars, results, srcVars, wkVars,
                   collVars, histVars>>

----------------------------------------------------------------------------
\* Result collector: processResults, run by the caller.

\* CountOutcome that counts an error Outcome as a success as well
CountOutcomeBoth(r) ==
    IF r.Error
    THEN errorCount' = errorCount + 1 /\ successCount' = successCount + 1
    ELSE successCount' = successCount + 1 /\ UNCHANGED errorCount

\* CountOutcome that forgets the error branch
CountOutcomeSuccessOnly(r) ==
    IF r.Error
    THEN UNCHANGED <<successCount, errorCount>>
    ELSE successCount' = successCount + 1 /\ UNCHANGED errorCount

\* if result.Error != nil { errorCount++ } else { successCount++ }
CountOutcome(r) ==
    IF r.Error
    THEN errorCount' = errorCount + 1 /\ UNCHANGED successCount
    ELSE successCount' = successCount + 1 /\ UNCHANGED errorCount

\* return ProcessResult{SuccessCount: successCount, ErrorCount: errorCount}
Return(path) ==
    /\ ret' = ProcessResult(successCount, errorCount)
    /\ retPath' = path
    /\ cpc' = "returned"
    /\ UNCHANGED <<successCount, errorCount>>

\* items whose Outcome the collector has already counted
Counted == {i \in Items : emitted[i] > 0 /\ \A k \in 1..Len(results) : results[k].Text # i}

\* select, case <-ctx.Done(): go on to the inner select
CollCtxDone ==
    /\ NotifierRunning
    /\ cpc = "select"
    /\ ctxDone
    /\ cpc' = "cancelwait"
    /\ UNCHANGED monitorVars
    /\ UNCHANGED <<argVars, storageVars, ctxDone, jobsVars, resultsVars, srcVars, wkVars,
                   watcher, successCount, errorCount, ret, retPath, fault,
                   histVars>>

\* select, case result, ok := <-results with ok = true
CollRecv ==
    /\ NotifierRunning
    /\ cpc = "select"
    /\ results # <<>>
    /\ CountOutcome(Head(results))
    /\ results' = Tail(results)
    /\ reordered' = (reordered \/ \E j \in Counted : j > Head(results).Text)
    /\ UNCHANGED monitorVars
    /\ UNCHANGED <<argVars, storageVars, ctxDone, jobsVars, resultsClosed, srcVars, wkVars,
                   watcher, cpc, ret, retPath, fault, admittedAtCancel, emitted,
                   ticks>>

\* ResultsDrained of a collector that takes an empty queue for a closed one
ResultsEmpty == results = <<>>

\* result, ok := <-results yields ok = false: closed and nothing buffered
ResultsDrained == results = <<>> /\ resultsClosed

\* select, case result, ok := <-results with ok = false: go on to <-done
CollClosed ==
    /\ NotifierRunning
    /\ cpc = "select"
    /\ ResultsDrained
    /\ cpc' = "closedwait"
    /\ UNCHANGED monitorVars
    /\ UNCHANGED <<argVars, storageVars, ctxDone, jobsVars, resultsVars, srcVars, wkVars,
                   watcher, successCount, errorCount, ret, retPath, fault,
                   histVars>>

\* <-done after the closed results (done is unbuffered: a rendezvous with the
\* watcher's done <- true); return
CollDoneAfterClosed ==
    /\ NotifierRunning
    /\ cpc = "closedwait"
    /\ watcher = "senddone"
    /\ watcher' = "exited"
    /\ Return("closed")
    /\ UNCHANGED monitorVars
    /\ UNCHANGED <<argVars, storageVars, ctxDone, jobsVars, resultsVars, srcVars, wkVars,
                   fault, histVars>>

\* inner select after cancellation, case <-done; return
CollDoneAfterCancel ==
    /\ NotifierRunning
    /\ cpc = "cancelwait"
    /\ watcher = "senddone"
    /\ watcher' = "exited"
    /\ Return("cancel-done")
    /\ UNCHANGED monitorVars
    /\ UNCHANGED <<argVars, storageVars, ctxDone, jobsVars, resultsVars, srcVars, wkVars,
                   fault, histVars>>

\* CollGraceTimeout of a collector that waits for done alone
CollNoGraceTimeout == FALSE /\ UNCHANGED vars

\* inner select after cancellation, case <-time.After(2 * time.Second); return
CollGraceTimeout ==
    /\ NotifierRunning
    /\ cpc = "cancelwait"
    /\ Return("cancel-timeout")
    /\ UNCHANGED monitorVars
    /\ UNCHANGED <<argVars, storageVars, ctxDone, jobsVars, resultsVars, srcVars, wkVars,
                   watcher, fault, histVars>>

----------------------------------------------------------------------------
\* Monitor pipeline, reader: the goroutine of repository.GetServices.

\* deferred close(errChan); close(servicesChan)
RdReturn ==
    /\ rpc' = "exited"
    /\ servicesClosed' = TRUE
    /\ readErrClosed' = TRUE

\* ctx.Err() != nil -> errChan <- ctx.Err(); read or parse error -> errChan <-
\* err; otherwise start the send loop
RdStart ==
    /\ Running("monitor")
    /\ rpc = "start"
    /\ (ctxDone \/ ~inputOK) => Len(readErrChan) < ErrChanCap
    /\ IF ctxDone
       THEN readErrChan' = Append(readErrChan, "canceled") /\ RdReturn
       ELSE IF ~inputOK
       THEN readErrChan' = Append(readErrChan, "read") /\ RdReturn
       ELSE rpc' = "send" /\ UNCHANGED <<readErrChan, servicesClosed, readErrClosed>>
    /\ UNCHANGED <<argVars, storageVars, ctxDone, fault, notifierVars, inputVars, saveVars, callVars, rsent,
                   servicesChan, filterVars, outVars, coordVars, countVars>>

\* the range over services is finished: return
RdEnd ==
    /\ Running("monitor")
    /\ rpc = "send"
    /\ rsent >= Len(services)
    /\ RdReturn
    /\ UNCHANGED <<argVars, storageVars, ctxDone, fault, notifierVars, inputVars, saveVars, callVars, rsent,
                   servicesChan, readErrChan, filterVars, outVars, coordVars,
                   countVars>>

\* select, case <-ctx.Done(): errChan <- ctx.Err(); return
RdCtxDone ==
    /\ Running("monitor")
    /\ rpc = "send"
    /\ rsent < Len(services)
    /\ ctxDone
    /\ Len(readErrChan) < ErrChanCap
    /\ readErrChan' = Append(readErrChan, "canceled")
    /\ RdReturn
    /\ UNCHANGED <<argVars, storageVars, ctxDone, fault, notifierVars, inputVars, saveVars, callVars, rsent,
                   servicesChan, filterVars, outVars, coordVars, countVars>>

\* select, case servicesChan <- service
RdSend ==
    /\ Running("monitor")
    /\ rpc = "send"
    /\ rsent < Len(services)
    /\ Len(servicesChan) < ServicesChanCap
    /\ servicesChan' = Append(servicesChan, rsent + 1)
    /\ rsent' = rsent + 1
    /\ UNCHANGED <<argVars, storageVars, ctxDone, fault, notifierVars, inputVars, saveVars, callVars, rpc,
                   servicesClosed, readErrChan, readErrClosed, filterVars,
                   outVars, coordVars, countVars>>

----------------------------------------------------------------------------
\* Monitor pipeline, filter workers: the goroutines of FilterServicesBatch.

\* a filter that lets every service through
MatchesAny(i) == i \in 1..Len(services)

\* svc.DeprecatedDate == TargetDeprecatedDate && svc.BusinessLine == TargetBusinessLine
Matches(i) == services[i]

\* return or end of the range loop, with the deferred wg.Done()
FwExit(w) ==
    /\ mpc' = [mpc EXCEPT ![w] = "exited"]
    /\ msvc' = [msvc EXCEPT ![w] = 0]
    /\ wg' = wg - 1

\* for svc := range servicesChan: a service is received
FwRecv(w) ==
    /\ Running("monitor")
    /\ mpc[w] = "range"
    /\ servicesChan # <<>>
    /\ servicesChan' = Tail(servicesChan)
    /\ msvc' = [msvc EXCEPT ![w] = Head(servicesChan)]
    /\ mpc' = [mpc EXCEPT ![w] = "check"]
    /\ UNCHANGED <<argVars, storageVars, ctxDone, fault, notifierVars, inputVars, saveVars, callVars, rpc, rsent,
                   servicesClosed, readErrChan, readErrClosed, outVars,
                   coordVars, countVars>>

\* for svc := range servicesChan: the channel is closed and drained
FwClosed(w) ==
    /\ Running("monitor")
    /\ mpc[w] = "range"
    /\ servicesChan = <<>>
    /\ servicesClosed
    /\ FwExit(w)
    /\ UNCHANGED <<argVars, storageVars, ctxDone, fault, notifierOwn, inputVars, saveVars, callVars, readerVars,
                   outVars, coordVars, countVars>>

\* select with default: ctx.Done() ready -> return; default: a matching
\* service goes on to the send, any other is skipped
FwCheck(w) ==
    /\ Running("monitor")
    /\ mpc[w] = "check"
    /\ IF ctxDone
       THEN FwExit(w)
       ELSE /\ IF Matches(msvc[w])
               THEN mpc' = [mpc EXCEPT ![w] = "emit"] /\ UNCHANGED msvc
               ELSE /\ mpc' = [mpc EXCEPT ![w] = "range"]
                    /\ msvc' = [msvc EXCEPT ![w] = 0]
            /\ UNCHANGED wg
    /\ UNCHANGED <<argVars, storageVars, ctxDone, fault, notifierOwn, inputVars, saveVars, callVars, readerVars,
                   outVars, coordVars, countVars>>

\* inner select, case <-ctx.Done(): return
FwEmitCtxDone(w) ==
    /\ Running("monitor")
    /\ mpc[w] = "emit"
    /\ ctxDone
    /\ FwExit(w)
    /\ UNCHANGED <<argVars, storageVars, ctxDone, fault, notifierOwn, inputVars, saveVars, callVars, readerVars,
                   outVars, coordVars, countVars>>

\* inner select, case resultsChan <- result
FwEmit(w) ==
    /\ Running("monitor")
    /\ mpc[w] = "emit"
    /\ resultsChanClosed \/ Len(resultsChan) < ResultsChanCap
    /\ IF resultsChanClosed
       THEN /\ fault' = "send on closed channel: resultsChan"
            /\ UNCHANGED <<resultsChan, resultsSent>>
       ELSE /\ resultsChan' = Append(resultsChan, msvc[w])
            /\ resultsSent' = resultsSent + 1
            /\ UNCHANGED fault
    /\ mpc' = [mpc EXCEPT ![w] = "range"]
    /\ msvc' = [msvc EXCEPT ![w] = 0]
    /\ UNCHANGED <<argVars, storageVars, ctxDone, notifierVars, inputVars, saveVars, callVars, readerVars,
                   resultsChanClosed, coordVars, countVars>>

----------------------------------------------------------------------------
\* Monitor pipeline, coordination goroutine of FilterServicesBatch.

\* wg.Wait(); close(resultsChan)
CoClose ==
    /\ Running("monitor")
    /\ coord = "wait"
    /\ WgWait
    /\ IF resultsChanClosed
       THEN fault' = "close of closed channel: resultsChan"
            /\ UNCHANGED resultsChanClosed
       ELSE resultsChanClosed' = TRUE /\ UNCHANGED fault
    /\ coord' = "readerr"
    /\ UNCHANGED <<argVars, storageVars, ctxDone, notifierVars, inputVars, saveVars, callVars, readerVars,
                   filterVars, resultsChan, resultsSent, procErrChan,
                   procErrClosed, countVars>>

\* select { case err := <-readErrChan: forward a real error; default: };
\* close(procErrChan).  A closed, drained readErrChan yields err = nil.
CoReadErr ==
    /\ Running("monitor")
    /\ coord = "readerr"
    /\ (readErrChan # <<>> /\ Head(readErrChan) # "canceled")
          => Len(procErrChan) < ProcErrChanCap
    /\ IF readErrChan # <<>>
       THEN /\ readErrChan' = Tail(readErrChan)
            /\ procErrChan' = IF Head(readErrChan) # "canceled"
                              THEN Append(procErrChan, Head(readErrChan))
                              ELSE procErrChan
       ELSE UNCHANGED <<readErrChan, procErrChan>>
    /\ procErrClosed' = TRUE
    /\ coord' = "exited"
    /\ UNCHANGED <<argVars, storageVars, ctxDone, fault, notifierVars, inputVars, saveVars, callVars, rpc, rsent,
                   servicesChan, servicesClosed, readErrClosed, filterVars,
                   outVars, countVars>>

----------------------------------------------------------------------------
\* Monitor pipeline, counting goroutine of processWithContext.

\* for result := range resultsChan: a Result is received; resultCount++
CgRecv ==
    /\ Running("monitor")
    /\ gpc = "range"
    /\ resultsChan # <<>>
    /\ resultsChan' = Tail(resultsChan)
    /\ gres' = Head(resultsChan)
    /\ resultCount' = resultCount + 1
    /\ gpc' = "forward"
    /\ UNCHANGED <<argVars, storageVars, ctxDone, fault, notifierVars, inputVars, saveVars, callVars, readerVars,
                   filterVars, resultsChanClosed, resultsSent, coordVars,
                   collectedResults, collectedClosed>>

\* result, ok := <-resultsChan yields ok = false: closed and nothing buffered
ResultsChanDrained == resultsChan = <<>> /\ resultsChanClosed

\* for result := range resultsChan: closed and drained; deferred
\* close(collectedResults)
CgClosed ==
    /\ Running("monitor")
    /\ gpc = "range"
    /\ ResultsChanDrained
    /\ collectedClosed' = TRUE
    /\ gpc' = "drained"
    /\ UNCHANGED <<argVars, storageVars, ctxDone, fault, notifierVars, inputVars, saveVars, callVars, readerVars,
                   filterVars, outVars, coordVars, gres, resultCount,
                   collectedResults>>

\* select, case <-ctx.Done(): return; deferred close(collectedResults)
CgCtxDone ==
    /\ Running("monitor")
    /\ gpc = "forward"
    /\ ctxDone
    /\ collectedClosed' = TRUE
    /\ gres' = 0
    /\ gpc' = "cancelled"
    /\ UNCHANGED <<argVars, storageVars, ctxDone, fault, notifierVars, inputVars, saveVars, callVars, readerVars,
                   filterVars, outVars, coordVars, resultCount,
                   collectedResults>>

\* select, case collectedResults <- result
CgForward ==
    /\ Running("monitor")
    /\ gpc = "forward"
    /\ Len(collectedResults) < CollectedCap
    /\ collectedResults' = Append(collectedResults, gres)
    /\ gres' = 0
    /\ gpc' = "range"
    /\ UNCHANGED <<argVars, storageVars, ctxDone, fault, notifierVars, inputVars, saveVars, callVars, readerVars,
                   filterVars, outVars, coordVars, resultCount, collectedClosed>>

----------------------------------------------------------------------------
\* Monitor pipeline, saver: the goroutine of repository.SaveResults.

\* errChan := make(chan error, 1)
SaveErrChanCap == 1

\* saveToFile(allResults) followed by the statements after it: nothing to
\* write -> nil; the file is written -> nil; os.Create or Encode fails -> the
\* error goes to errChan.  after is the error sent when the save went well
\* ("nil": none).  Then return, with the deferred close(errChan).
SaveAndReturn(after) ==
    /\ Len(saveErrChan) < SaveErrChanCap
    /\ IF allResults = <<>>
       THEN /\ UNCHANGED outputFile
            /\ saveErrChan' = IF after = "nil" THEN saveErrChan
                               ELSE Append(saveErrChan, after)
       ELSE IF outputOK
       THEN /\ outputFile' = allResults
            /\ saveErrChan' = IF after = "nil" THEN saveErrChan
                               ELSE Append(saveErrChan, after)
       ELSE /\ UNCHANGED outputFile
            /\ saveErrChan' = Append(saveErrChan, "save")
    /\ saveErrClosed' = TRUE
    /\ vpc' = "exited"
    /\ UNCHANGED allResults

\* select, case <-ctx.Done(): save what was collected; errChan <- ctx.Err()
SvCtxDone ==
    /\ Running("monitor")
    /\ vpc = "select"
    /\ ctxDone
    /\ SaveAndReturn("canceled")
    /\ UNCHANGED <<argVars, storageVars, ctxDone, fault, notifierVars, inputVars,
                   readerVars, filterVars, outVars, coordVars, countVars,
                   callVars>>

\* select, case result, ok := <-results with ok = true: append
SvRecv ==
    /\ Running("monitor")
    /\ vpc = "select"
    /\ collectedResults # <<>>
    /\ allResults' = Append(allResults, Head(collectedResults))
    /\ collectedResults' = Tail(collectedResults)
    /\ UNCHANGED <<argVars, storageVars, ctxDone, fault, notifierVars, inputVars,
                   readerVars, filterVars, outVars, coordVars, gpc, gres,
                   resultCount, collectedClosed, vpc, outputFile, saveErrChan,
                   saveErrClosed, callVars>>

\* select, case result, ok := <-results with ok = false: save all and return
SvClosed ==
    /\ Running("monitor")
    /\ vpc = "select"
    /\ collectedResults = <<>>
    /\ collectedClosed
    /\ SaveAndReturn("nil")
    /\ UNCHANGED <<argVars, storageVars, ctxDone, fault, notifierVars, inputVars,
                   readerVars, filterVars, outVars, coordVars, countVars,
                   callVars>>

----------------------------------------------------------------------------
\* Monitor pipeline, the caller: processWithContext and main.

\* first select, case saveErr = <-saveErrChan (a closed, drained channel
\* yields nil)
PwRecvSaveErr ==
    /\ Running("monitor")
    /\ ppc = "select"
    /\ saveErrChan # <<>> \/ saveErrClosed
    /\ IF saveErrChan # <<>>
       THEN saveErr' = Head(saveErrChan) /\ saveErrChan' = Tail(saveErrChan)
       ELSE saveErr' = "nil" /\ UNCHANGED saveErrChan
    /\ ppc' = "procerr"
    /\ UNCHANGED <<argVars, storageVars, ctxDone, fault, notifierVars, inputVars,
                   readerVars, filterVars, outVars, coordVars, countVars, vpc,
                   allResults, outputFile, saveErrClosed, pret>>

\* first select, case <-ctx.Done(): return ctx.Err()
PwCtxDone ==
    /\ Running("monitor")
    /\ ppc = "select"
    /\ ctxDone
    /\ pret' = "canceled"
    /\ ppc' = "returned"
    /\ UNCHANGED <<argVars, storageVars, ctxDone, fault, notifierVars, inputVars,
                   readerVars, filterVars, outVars, coordVars, countVars,
                   saveVars, saveErr>>

\* the error processWithContext returns for procErr and saveErr
ReturnedError(procErr) ==
    IF procErr \notin {"nil", "canceled"} THEN "proc"
    ELSE IF saveErr \notin {"nil", "canceled"} THEN "save"
    ELSE "nil"

\* select { case procErr = <-procErrChan: default: } and the return that
\* follows: an error waiting on procErrChan is taken, an empty channel (closed
\* or not) gives procErr = nil
PwReturn ==
    /\ Running("monitor")
    /\ ppc = "procerr"
    /\ IF procErrChan # <<>>
       THEN /\ procErrChan' = Tail(procErrChan)
            /\ pret' = ReturnedError(Head(procErrChan))
       ELSE /\ UNCHANGED procErrChan
            /\ pret' = ReturnedError("nil")
    /\ ppc' = "returned"
    /\ UNCHANGED <<argVars, storageVars, ctxDone, fault, notifierVars, inputVars,
                   readerVars, filterVars, outVars, coord, procErrClosed,
                   countVars, saveVars, saveErr>>

\* main after processWithContext has returned: os.Exit(1) on an error, the end
\* of main otherwise; either ends the program and every goroutine
MainExit ==
    /\ Running("monitor")
    /\ ppc = "returned"
    /\ ppc' = "exited"
    /\ UNCHANGED <<argVars, storageVars, ctxDone, fault, notifierVars, inputVars,
                   readerVars, filterVars, outVars, coordVars, countVars,
                   saveVars, saveErr, pret>>

----------------------------------------------------------------------------
\* BatchHandler of the REST API: it binds the request body, chooses interval
\* and workers and calls ProcessWithIntervals with them.  The run of
\* ProcessWithIntervals itself is the pipeline above, for its arguments.

\* c.ShouldBindJSON(&req): messages `required,min=1`; interval_ms
\* `omitempty,min=0` and workers `omitempty,min=1,max=10`, where omitempty skips
\* the checks of a field that is absent or 0
ShouldBindJSON ==
    /\ Len(notifications) >= 1
    /\ req.IntervalMs = 0 \/ req.IntervalMs >= 0
    /\ req.Workers = 0 \/ (req.Workers >= 1 /\ req.Workers <= 10)

\* interval := 2 * time.Second; if req.IntervalMs > 0 { interval =
\* time.Duration(req.IntervalMs) * time.Millisecond }
BatchInterval ==
    IF req.IntervalMs > 0
    THEN WrapDuration(req.IntervalMs * Millisecond)
    ELSE 2 * Second

\* workers := 2; if req.Workers > 0 { workers = req.Workers }
BatchWorkers == IF req.Workers > 0 THEN req.Workers ELSE 2

\* ShouldBindJSON fails: 400 and return; otherwise go on
BatchBind ==
    /\ Running("batch")
    /\ hpc = "bind"
    /\ hpc' = IF ShouldBindJSON THEN "bound" ELSE "rejected"
    /\ UNCHANGED <<mode, notifications, numWorkers, interval, req, call,
                   ctxDone, fault, storageVars, notifierVars, monitorVars>>

\* h.telegramService.ProcessWithIntervals(c.Request.Context(), notifications,
\* interval, workers)
BatchCall ==
    /\ Running("batch")
    /\ hpc = "bound"
    /\ call' = [interval |-> BatchInterval, workers |-> BatchWorkers]
    /\ hpc' = "called"
    /\ UNCHANGED <<mode, notifications, numWorkers, interval, req,
                   ctxDone, fault, storageVars, notifierVars, monitorVars>>

BatchHandler == BatchBind \/ BatchCall

----------------------------------------------------------------------------
\* The stand-alone pipeline of the notifier command:
\* processNotificationsWithIntervals and notificationWorker of
\* cmd/notifier/main.go.  Its channels, counters and goroutines have the names
\* and shapes of those of ProcessWithIntervals and are held in the same
\* variables; its admission is paced.

\* numWorkers := 2
CmdNumWorkers == 2

\* jobs, results, done, wg and the counters as processNotificationsWithIntervals
\* creates them
InitCmd == Init /\ mode = "paced" /\ numWorkers = CmdNumWorkers

\* ticker := time.NewTicker(interval): panics when interval <= 0.  With a
\* positive interval the call only creates the ticker, and the source starts at
\* its select.
CmdSrcNewTicker ==
    /\ Running("paced")
    /\ spc = "start"
    /\ interval <= 0
    /\ fault' = "non-positive interval for NewTicker"
    /\ UNCHANGED monitorVars
    /\ UNCHANGED <<argVars, storageVars, ctxDone, jobsVars, resultsVars, srcVars, wkVars,
                   watcher, collVars, histVars>>

\* outer select, case <-ctx.Done(): close(jobs); return
CmdSrcCtxDone ==
    /\ Running("paced")
    /\ spc = "select"
    /\ ctxDone
    /\ CloseJobs
    /\ spc' = "exited"
    /\ UNCHANGED monitorVars
    /\ UNCHANGED <<argVars, storageVars, ctxDone, jobs, resultsVars, sentCount,
                   wkVars, watcher, collVars, histVars>>

\* outer select, case <-ticker.C (the ticker of time.NewTicker(interval) fires
\* and the select takes the tick): all sent -> close(jobs); return, otherwise
\* go on to the inner select with notifications[sentCount]
CmdSrcTick ==
    /\ Running("paced")
    /\ spc = "select"
    /\ IF sentCount >= Len(notifications)
       THEN CloseJobs /\ spc' = "exited"
       ELSE spc' = "enqueue" /\ UNCHANGED <<jobsClosed, fault>>
    /\ ticks' = ticks + 1
    /\ UNCHANGED monitorVars
    /\ UNCHANGED <<argVars, storageVars, ctxDone, jobs, resultsVars, sentCount,
                   wkVars, watcher, collVars, admittedAtCancel, emitted,
                   reordered>>

\* inner select, case <-ctx.Done(): close(jobs); return
CmdSrcEnqueueCtxDone ==
    /\ Running("paced")
    /\ spc = "enqueue"
    /\ ctxDone
    /\ CloseJobs
    /\ spc' = "exited"
    /\ UNCHANGED monitorVars
    /\ UNCHANGED <<argVars, storageVars, ctxDone, jobs, resultsVars, sentCount,
                   wkVars, watcher, collVars, histVars>>

\* inner select, case jobs <- notification: sentCount++
CmdSrcEnqueue ==
    /\ Running("paced")
    /\ spc = "enqueue"
    /\ CanSendJobs
    /\ SendJobs(sentCount + 1)
    /\ sentCount' = sentCount + 1
    /\ spc' = "select"
    /\ UNCHANGED monitorVars
    /\ UNCHANGED <<argVars, storageVars, ctxDone, jobsClosed, resultsVars, wkVars,
                   watcher, collVars, histVars>>

\* return, with the deferred wg.Done()
CmdWkExit(w) ==
    /\ wpc' = [wpc EXCEPT ![w] = "exited"]
    /\ wjob' = [wjob EXCEPT ![w] = 0]
    /\ werr' = [werr EXCEPT ![w] = FALSE]
    /\ wearly' = [wearly EXCEPT ![w] = FALSE]
    /\ wg' = wg - 1

\* back to the top of the for loop
CmdWkLoop(w) ==
    /\ wpc' = [wpc EXCEPT ![w] = "select"]
    /\ wjob' = [wjob EXCEPT ![w] = 0]
    /\ werr' = [werr EXCEPT ![w] = FALSE]
    /\ wearly' = [wearly EXCEPT ![w] = FALSE]
    /\ UNCHANGED wg

\* select, case <-ctx.Done(): return
CmdWkCtxDone(w) ==
    /\ Running("paced")
    /\ wpc[w] = "select"
    /\ ctxDone
    /\ CmdWkExit(w)
    /\ UNCHANGED monitorVars
    /\ UNCHANGED <<argVars, storageVars, ctxDone, jobsVars, resultsVars, srcVars, watcher,
                   collVars, fault, histVars>>

\* select, case notification, ok := <-jobs with ok = true
CmdWkRecv(w) ==
    /\ Running("paced")
    /\ wpc[w] = "select"
    /\ jobs # <<>>
    /\ jobs' = Tail(jobs)
    /\ wjob' = [wjob EXCEPT ![w] = Head(jobs)]
    /\ wearly' = [wearly EXCEPT ![w] = ~ctxDone]
    /\ wpc' = [wpc EXCEPT ![w] = "process"]
    /\ UNCHANGED monitorVars
    /\ UNCHANGED <<argVars, storageVars, ctxDone, jobsClosed, resultsVars, srcVars, werr, wg,
                   watcher, collVars, fault, histVars>>

\* select, case notification, ok := <-jobs with ok = false: return
CmdWkJobsClosed(w) ==
    /\ Running("paced")
    /\ wpc[w] = "select"
    /\ jobs = <<>>
    /\ jobsClosed
    /\ CmdWkExit(w)
    /\ UNCHANGED monitorVars
    /\ UNCHANGED <<argVars, storageVars, ctxDone, jobsVars, resultsVars, srcVars, watcher,
                   collVars, fault, histVars>>

\* err := service.ProcessEntity(ctx, notification), the method of the same
\* TelegramService: with ctx.Err() set it returns before Store; otherwise it
\* stores the notification and sends it
CmdWkProcess(w) ==
    /\ Running("paced")
    /\ wpc[w] = "process"
    /\ StoreEntities(w)
    /\ werr' = [werr EXCEPT ![w] = ProcessEntity(wjob[w])]
    /\ wpc' = [wpc EXCEPT ![w] = "emit"]
    /\ UNCHANGED monitorVars
    /\ UNCHANGED <<argVars, ctxDone, jobsVars, resultsVars, srcVars, wjob,
                   wearly, wg, watcher, collVars, fault, histVars>>

\* emit select, case <-ctx.Done(): return without sending the result
CmdWkEmitCtxDone(w) ==
    /\ Running("paced")
    /\ wpc[w] = "emit"
    /\ ctxDone
    /\ CmdWkExit(w)
    /\ UNCHANGED monitorVars
    /\ UNCHANGED <<argVars, storageVars, ctxDone, jobsVars, resultsVars, srcVars, watcher,
                   collVars, fault, histVars>>

\* emit select, case results <- &workerResult{Text, Error: err}; then loop
CmdWkEmit(w) ==
    /\ Running("paced")
    /\ wpc[w] = "emit"
    /\ CanSendResults
    /\ SendResults([Text |-> wjob[w], Error |-> werr[w]])
    /\ emitted' = [emitted EXCEPT ![wjob[w]] = @ + 1]
    /\ CmdWkLoop(w)
    /\ UNCHANGED monitorVars
    /\ UNCHANGED <<argVars, storageVars, ctxDone, jobsVars, resultsClosed, srcVars,
                   watcher, collVars, admittedAtCancel, reordered, ticks>>

\* go func() { wg.Wait(); close(results); done <- true }(): wg.Wait();
\* close(results); next: done <- true
CmdWatcherClose ==
    /\ Running("paced")
    /\ watcher = "wait"
    /\ WgWait
    /\ IF resultsClosed
       THEN fault' = "close of closed channel: results" /\ UNCHANGED resultsClosed
       ELSE resultsClosed' = TRUE /\ UNCHANGED fault
    /\ watcher' = "senddone"
    /\ UNCHANGED monitorVars
    /\ UNCHANGED <<argVars, storageVars, ctxDone, jobsVars, results, srcVars, wkVars,
                   collVars, histVars>>

\* CmdCountOutcome with the two branches swapped
CmdCountOutcomeSwapped(r) ==
    IF r.Error
    THEN successCount' = successCount + 1 /\ UNCHANGED errorCount
    ELSE errorCount' = errorCount + 1 /\ UNCHANGED successCount

\* if result.Error != nil { errorCount++ } else { successCount++ }
CmdCountOutcome(r) ==
    IF r.Error
    THEN errorCount' = errorCount + 1 /\ UNCHANGED successCount
    ELSE successCount' = successCount + 1 /\ UNCHANGED errorCount

\* return successCount, errorCount: the pair of named results, written as the
\* record of the same two numbers
CmdReturn(path) ==
    /\ ret' = ProcessResult(successCount, errorCount)
    /\ retPath' = path
    /\ cpc' = "returned"
    /\ UNCHANGED <<successCount, errorCount>>

\* select, case <-ctx.Done(): go on to the inner select
CmdCollCtxDone ==
    /\ Running("paced")
    /\ cpc = "select"
    /\ ctxDone
    /\ cpc' = "cancelwait"
    /\ UNCHANGED monitorVars
    /\ UNCHANGED <<argVars, storageVars, ctxDone, jobsVars, resultsVars, srcVars, wkVars,
                   watcher, successCount, errorCount, ret, retPath, fault,
                   histVars>>

\* select, case result, ok := <-results with ok = true
CmdCollRecv ==
    /\ Running("paced")
    /\ cpc = "select"
    /\ results # <<>>
    /\ CmdCountOutcome(Head(results))
    /\ results' = Tail(results)
    /\ reordered' = (reordered \/ \E j \in Counted : j > Head(results).Text)
    /\ UNCHANGED monitorVars
    /\ UNCHANGED <<argVars, storageVars, ctxDone, jobsVars, resultsClosed, srcVars, wkVars,
                   watcher, cpc, ret, retPath, fault, admittedAtCancel, emitted,
                   ticks>>

\* select, case result, ok := <-results with ok = false: go on to <-done
CmdCollClosed ==
    /\ Running("paced")
    /\ cpc = "select"
    /\ ResultsDrained
    /\ cpc' = "closedwait"
    /\ UNCHANGED monitorVars
    /\ UNCHANGED <<argVars, storageVars, ctxDone, jobsVars, resultsVars, srcVars, wkVars,
                   watcher, successCount, errorCount, ret, retPath, fault,
                   histVars>>

\* <-done after the closed results (done is unbuffered: a rendezvous with the
\* watcher's done <- true); return
CmdCollDoneAfterClosed ==
    /\ Running("paced")
    /\ cpc = "closedwait"
    /\ watcher = "senddone"
    /\ watcher' = "exited"
    /\ CmdReturn("closed")
    /\ UNCHANGED monitorVars
    /\ UNCHANGED <<argVars, storageVars, ctxDone, jobsVars, resultsVars, srcVars, wkVars,
                   fault, histVars>>

\* inner select after cancellation, case <-done; return
CmdCollDoneAfterCancel ==
    /\ Running("paced")
    /\ cpc = "cancelwait"
    /\ watcher = "senddone"
    /\ watcher' = "exited"
    /\ CmdReturn("cancel-done")
    /\ UNCHANGED monitorVars
    /\ UNCHANGED <<argVars, storageVars, ctxDone, jobsVars, resultsVars, srcVars, wkVars,
                   fault, histVars>>

\* inner select after cancellation, case <-time.After(2 * time.Second); return
CmdCollGraceTimeout ==
    /\ Running("paced")
    /\ cpc = "cancelwait"
    /\ CmdReturn("cancel-timeout")
    /\ UNCHANGED monitorVars
    /\ UNCHANGED <<argVars, storageVars, ctxDone, jobsVars, resultsVars, srcVars, wkVars,
                   watcher, fault, histVars>>

CmdSource ==
    \/ CmdSrcNewTicker
    \/ CmdSrcCtxDone
    \/ CmdSrcTick
    \/ CmdSrcEnqueueCtxDone
    \/ CmdSrcEnqueue

CmdWorker(w) ==
    \/ CmdWkCtxDone(w)
    \/ CmdWkRecv(w)
    \/ CmdWkJobsClosed(w)
    \/ CmdWkProcess(w)
    \/ CmdWkEmitCtxDone(w)
    \/ CmdWkEmit(w)

CmdCollector ==
    \/ CmdCollCtxDone
    \/ CmdCollRecv
    \/ CmdCollClosed
    \/ CmdCollDoneAfterClosed
    \/ CmdCollDoneAfterCancel
    \/ CmdCollGraceTimeout

NextCmd ==
    \/ Cancel
    \/ CmdSource
    \/ \E w \in 1..CmdNumWorkers : CmdWorker(w)
    \/ CmdWatcherClose
    \/ CmdCollector

CmdSpec == InitCmd /\ [][NextCmd]_vars

----------------------------------------------------------------------------
PacedSource == SrcCtxDone \/ SrcTick \/ SrcEnqueueCtxDone \/ SrcEnqueue

ImmediateSource == SrcAllNext \/ SrcAllSend

Worker(w) == WkCtxDone(w) \/ WkRecv(w) \/ WkJobsClosed(w) \/ WkProcess(w)
                \/ WkEmitCtxDone(w) \/ WkEmit(w)

Collector == CollCtxDone \/ CollRecv \/ CollClosed \/ CollDoneAfterClosed
                \/ CollDoneAfterCancel \/ CollGraceTimeout

Reader == RdStart \/ RdEnd \/ RdCtxDone \/ RdSend

FilterWorker(w) == FwRecv(w) \/ FwClosed(w) \/ FwCheck(w) \/ FwEmitCtxDone(w)
                      \/ FwEmit(w)

Coordinator == CoClose \/ CoReadErr

Counter == CgRecv \/ CgClosed \/ CgCtxDone \/ CgForward

Saver == SvCtxDone \/ SvRecv \/ SvClosed

Caller == PwRecvSaveErr \/ PwCtxDone \/ PwReturn \/ MainExit

\* ProcessWithIntervals as the code wires it: the paced source, its ticker
\* running
NextPaced ==
    \/ Cancel
    \/ PacedSource
    \/ \E w \in Workers : Worker(w)
    \/ WatcherClose
    \/ Collector

Next ==
    \/ NextPaced
    \/ SrcNewTicker
    \/ ImmediateSource
    \/ Reader
    \/ \E w \in Workers : FilterWorker(w)
    \/ Coordinator
    \/ Counter
    \/ Saver
    \/ Caller
    \/ BatchHandler

Spec == Init /\ [][Next]_vars

\* The monitor command alone: processWithContext from its first statement to
\* the end of main.
InitMonitor == Init /\ mode = "monitor"

NextMonitor ==
    \/ Cancel
    \/ Reader
    \/ \E w \in Workers : FilterWorker(w)
    \/ Coordinator
    \/ Counter
    \/ Saver
    \/ Caller

MonitorSpec == InitMonitor /\ [][NextMonitor]_vars

\* The steps of worker w that the scheduler is bound to run: its channel
\* operations, and the return of ProcessEntity while the signal is not set
\* (a call made under a cancelled context is not assumed to return).
WorkerFair(w) ==
    /\ w \in Workers
    /\ \/ WkCtxDone(w) \/ WkRecv(w) \/ WkJobsClosed(w)
       \/ WkEmitCtxDone(w) \/ WkEmit(w)
       \/ (~ctxDone /\ WkProcess(w))

\* Scheduling: the Go scheduler runs every runnable goroutine, the ticker keeps
\* ticking (SrcTick), timers fire (CollGraceTimeout).
Fairness ==
    /\ WF_vars(PacedSource)
    /\ WF_vars(WatcherClose)
    /\ WF_vars(Collector)
    /\ \A w \in 1..MaxWorkers : WF_vars(WorkerFair(w))

\* ProcessWithIntervals alone with a positive interval, under fair scheduling
InitPaced == Init /\ mode = "paced" /\ interval > 0

LiveSpec == InitPaced /\ [][NextPaced]_vars /\ Fairness

\* Scheduling when, in addition, every call of the processing function returns,
\* under a cancelled context too (ProcessEntity returns at once when ctx.Err()
\* is set, service.go:209-211)
FairnessCallsReturn ==
    /\ Fairness
    /\ \A w \in 1..MaxWorkers : WF_vars(w \in Workers /\ WkProcess(w))

LiveSpecCallsReturn == InitPaced /\ [][NextPaced]_vars /\ FairnessCallsReturn

----------------------------------------------------------------------------
\* Properties.

Returned == cpc = "returned"
Tally == ret.SuccessCount + ret.ErrorCount
Failing == {i \in Items : notifications[i]}
Passing == {i \in Items : ~notifications[i]}

\* C1: an uncancelled run with at least one worker returns
\* SuccessCount + ErrorCount = n, whatever the interleaving.
C1_UncancelledCountsAll ==
    (Returned /\ ~ctxDone /\ numWorkers >= 1) => Tally = Len(notifications)

C1_Witness ==
    /\ Returned /\ ~ctxDone /\ mode = "paced"
    /\ numWorkers = 2 /\ Len(notifications) = 2 /\ Tally = 2

\* C2: in an uncancelled run ErrorCount is the number of items whose processing
\* failed and SuccessCount the number of items whose processing succeeded: a
\* failure stops neither the worker nor the batch.
C2_ErrorsAreOutcomes ==
    (Returned /\ ~ctxDone /\ numWorkers >= 1) =>
        /\ ret.ErrorCount = Cardinality(Failing)
        /\ ret.SuccessCount = Cardinality(Passing)

C2_Witness ==
    /\ Returned /\ ~ctxDone /\ numWorkers = 1
    /\ notifications = <<TRUE, FALSE>>
    /\ ret = ProcessResult(1, 1)

\* The tally of the batch processed one item after the other, in input order.
RECURSIVE SequentialTally(_, _)
SequentialTally(batch, k) ==
    IF k = 0 THEN ProcessResult(0, 0)
    ELSE LET t == SequentialTally(batch, k - 1)
         IN IF batch[k]
            THEN ProcessResult(t.SuccessCount, t.ErrorCount + 1)
            ELSE ProcessResult(t.SuccessCount + 1, t.ErrorCount)

\* C3: every uncancelled run returns the pair that processing the batch
\* sequentially in input order gives, whatever the worker count and the order in
\* which Outcomes were emitted and counted.
C3_ScheduleIndependent ==
    (Returned /\ ~ctxDone /\ numWorkers >= 1) =>
        ret = SequentialTally(notifications, Len(notifications))

\* an uncancelled run in which the collector counted item 2 before item 1
C3_Witness ==
    /\ Returned /\ ~ctxDone /\ numWorkers = 2 /\ reordered
    /\ notifications = <<FALSE, TRUE>>

\* C4 (as stated): an item dequeued before the signal was set always produces
\* its Outcome: the worker holding it never returns without having sent it.
C4_DequeuedBeforeCancelEmits ==
    [][\A w \in Workers :
          (wpc[w] \in {"process", "emit"} /\ wearly[w]) => wpc'[w] # "exited"]_vars

\* every item admitted so far has its Outcome on record
AllAdmittedEmitted == \A i \in Items : i <= sentCount => emitted[i] = 1

\* C4 (amended): with at least one worker, every admitted item eventually
\* yields its Outcome unless the signal is set before the Outcome is emitted
\* (again and again all items admitted so far have their Outcome), and no item
\* ever yields more than one Outcome.
C4_AdmittedEventuallyEmits ==
    /\ [](\A i \in Items : emitted[i] <= 1)
    /\ []<>(numWorkers >= 1 => (ctxDone \/ AllAdmittedEmitted))

C4_Witness ==
    /\ ~ctxDone /\ mode = "paced" /\ Len(notifications) = 2
    /\ \A i \in Items : emitted[i] = 1

\* C5 (as stated): cancelling when k < n items have been admitted bounds the
\* returned tally by k.
C5_CancelBoundsTally ==
    (Returned /\ mode = "paced" /\ admittedAtCancel >= 0
       /\ admittedAtCancel < Len(notifications)) => Tally <= admittedAtCancel

\* C6 (as stated): the returned result carries a partial marker that is true
\* exactly on the cancellation path.
C6_PartialMarker ==
    Returned => /\ "Partial" \in DOMAIN ret
                /\ ret.Partial = (retPath # "closed")

\* C7: every call returns a ProcessResult to its caller.
C7_CallerAlwaysReturns == <>Returned

\* the collector gave up waiting while a worker was still inside ProcessEntity
C7_Witness ==
    /\ Returned /\ retPath = "cancel-timeout"
    /\ \E w \in Workers : wpc[w] = "process"

\* C8: the source closes jobs exactly once on every exit path and only when it
\* exits; it never closes twice and never sends after the close.
C8_JobsClosedOnce ==
    /\ fault \notin {"close of closed channel: jobs", "send on closed channel: jobs"}
    /\ jobsClosed <=> spc = "exited"

\* the paced source left on cancellation with items still to admit
C8_Witness ==
    /\ mode = "paced" /\ spc = "exited" /\ jobsClosed /\ ctxDone
    /\ sentCount >= 1 /\ sentCount < Len(notifications)

\* C9: each outcome queue is closed once, only after every worker has exited;
\* no worker sends on a closed outcome queue; without cancellation the consumer
\* finds the queue closed only once it has received every Outcome sent.  For
\* results of ProcessWithIntervals and for resultsChan of FilterServicesBatch.
C9_OutcomeQueueClosedAfterWorkers ==
    /\ fault \notin {"close of closed channel: results",
                     "send on closed channel: results",
                     "close of closed channel: resultsChan",
                     "send on closed channel: resultsChan"}
    /\ resultsClosed => (wg = 0 /\ \A w \in Workers : wpc[w] = "exited")
    /\ resultsChanClosed => (wg = 0 /\ \A w \in Workers : mpc[w] = "exited")
    /\ (~ctxDone /\ (cpc = "closedwait" \/ retPath = "closed"))
          => successCount + errorCount = OutcomesSent
    /\ (~ctxDone /\ gpc = "drained") => resultCount = resultsSent

\* the monitor's consumer found resultsChan closed after two workers sent two
\* Results
C9_Witness ==
    /\ mode = "monitor" /\ ~ctxDone /\ gpc = "drained"
    /\ numWorkers = 2 /\ resultsSent = 2 /\ resultCount = 2

\* C10 (as stated): a result returned on the cancellation path after done
\* counts every Outcome the workers sent.
C10_CancelTallyComplete ==
    (Returned /\ retPath = "cancel-done") => Tally = OutcomesSent

\* C11 (as stated): once the signal is set the paced source admits no further
\* item.
C11_NoAdmissionAfterCancel ==
    [][(mode = "paced" /\ ctxDone) => sentCount' = sentCount]_vars

\* C12 (as stated): once the signal is set no worker dequeues a further item,
\* from jobs (notificationWorker) or from servicesChan (FilterServicesBatch).
C12_NoDequeueAfterCancel ==
    [][ctxDone => \A w \in Workers :
                     /\ wpc[w] = "select" => wpc'[w] # "process"
                     /\ mpc[w] = "range" => mpc'[w] # "check"]_vars

\* C13 (as stated): with a worker count below 1 nothing of the pipeline runs:
\* the source and the watcher (coordinator) take no step, and no tally is
\* returned.
C13_WorkerCountRejected ==
    numWorkers < 1 =>
        /\ ret = NoResult /\ cpc \in {"select", "none"}
        /\ sentCount = 0 /\ ~jobsClosed /\ ~resultsClosed
        /\ ~resultsChanClosed

\* C14 (as stated): a call with interval 0 admits all items and completes
\* normally with SuccessCount + ErrorCount = n.
C14_ZeroIntervalCompletes ==
    (mode = "paced" /\ interval = 0) =>
        /\ fault = "none"
        /\ (Returned /\ ~ctxDone /\ numWorkers >= 1) => Tally = Len(notifications)

\* C15: once the collector has observed cancellation it reads no further
\* Outcome and returns the tally it has, on done or on the grace timeout, also
\* when a worker never leaves the processing function.
C15_BoundedWaitAfterCancel ==
    /\ [][cpc = "cancelwait" =>
             /\ UNCHANGED <<successCount, errorCount>>
             /\ Len(results') >= Len(results)
             /\ cpc' # cpc =>
                   /\ cpc' = "returned"
                   /\ ret' = ProcessResult(successCount, errorCount)]_vars
    /\ (cpc = "cancelwait") ~> Returned

\* the collector returned on the timeout while a worker was still inside the
\* processing function and the watcher still in wg.Wait()
C15_Witness ==
    /\ Returned /\ retPath = "cancel-timeout" /\ watcher = "wait" /\ wg > 0
    /\ \E w \in Workers : wpc[w] = "process" /\ wearly[w]

\* C16 (as stated): when ProcessWithIntervals returns, the job source, every
\* worker and the completion watcher have terminated (calls with at least one
\* worker and a positive interval).
C16_NothingOutlivesCall ==
    (Returned /\ mode = "paced" /\ numWorkers >= 1 /\ interval > 0) =>
        /\ spc = "exited"
        /\ \A w \in Workers : wpc[w] = "exited"
        /\ watcher = "exited"

\* every goroutine of the run has terminated
AllTerminated ==
    /\ spc = "exited"
    /\ \A w \in Workers : wpc[w] = "exited"
    /\ watcher = "exited"
    /\ Returned

\* C17 (as stated): after cancellation, with every processing call returning,
\* each goroutine of the run eventually terminates.
C17_NoHangPastCancel == (ctxDone /\ numWorkers >= 1) ~> AllTerminated

\* C18 (as stated): after an uncancelled run of n items MemoryStorage holds
\* exactly n Notifications, for every worker count >= 1.
C18_StorageHoldsAll ==
    (Returned /\ ~ctxDone /\ numWorkers >= 1) =>
        storageNotifications = Len(notifications)

\* C19: the paced source admits nothing before its first tick and at most one
\* item per tick it takes (k admissions need k ticks), and in an uninterrupted
\* run it closes jobs on a tick after the one that admitted the last item
\* (n + 1 ticks in all).
C19_OneItemPerTick ==
    mode = "paced" =>
        /\ sentCount <= ticks
        /\ ticks <= sentCount + 1
        /\ (jobsClosed /\ ~ctxDone) =>
              (sentCount = Len(notifications) /\ ticks = Len(notifications) + 1)

\* an uninterrupted run admitted two items and closed jobs on the third tick
C19_Witness ==
    /\ mode = "paced" /\ ~ctxDone /\ jobsClosed
    /\ sentCount = 2 /\ ticks = 3

\* number of items the workers have dequeued from jobs
Dequeued == sentCount - Len(jobs)

\* C20: the items sent on jobs so far are the input positions 1..sentCount in
\* input order, each once: those still queued are the last ones, in order, the
\* workers hold distinct earlier ones, and every dequeue hands out the oldest
\* queued item, the next input position.
C20_AdmissionInInputOrder ==
    /\ [](/\ sentCount <= Len(notifications)
          /\ \A j \in 1..Len(jobs) : jobs[j] = Dequeued + j
          /\ \A w \in Workers : wjob[w] <= Dequeued
          /\ \A v, w \in Workers :
                (v # w /\ wjob[v] # 0) => wjob[v] # wjob[w])
    /\ [][\A w \in Workers :
             (wjob'[w] # wjob[w] /\ wjob'[w] # 0) =>
                 (wjob'[w] = Head(jobs) /\ wjob'[w] = Dequeued + 1)]_vars

\* worker 2 holds item 2, dequeued after item 1, which worker 1 still holds
C20_Witness ==
    /\ numWorkers = 2 /\ sentCount = 2 /\ jobs = <<>>
    /\ wjob[1] = 1 /\ wjob[2] = 2

\* The lifecycle state of a run, read off the program state: Running until every
\* worker has exited or the signal is set, Draining until processResults has
\* returned, then Done (Idle is before the call).
Lifecycle ==
    IF Returned THEN 3
    ELSE IF ctxDone \/ wg = 0 THEN 2
    ELSE 1

\* C21 (as stated): the lifecycle only moves forward, and once Done is reached
\* nothing is admitted, dequeued, processed or counted any more.
C21_LifecycleForward ==
    [][(mode = "paced" /\ numWorkers >= 1 /\ interval > 0) =>
         /\ Lifecycle' >= Lifecycle
         /\ Returned =>
               /\ UNCHANGED <<sentCount, successCount, errorCount, ret>>
               /\ \A w \in Workers :
                     wpc'[w] \in {"process", "emit"} => wpc'[w] = wpc[w]]_vars

\* C22 (as stated): cancellation never increases ErrorCount: the Outcomes
\* counted as errors belong to items whose processing fails on its own.
C22_CancellationIsNoError ==
    errorCount <= Cardinality({i \in Failing : emitted[i] > 0})

----------------------------------------------------------------------------
\* C23: in the monitor pipeline, once the context is cancelled and the output
\* file is writable, processWithContext has not returned (and the program has
\* not ended) while SaveResults still holds collected Results it has not
\* written: from the return on, the file holds every Result the saver has
\* collected.
C23_CollectedSavedOnCancel ==
    (mode = "monitor" /\ ctxDone /\ outputOK /\ ppc \in {"returned", "exited"})
        => outputFile = allResults

----------------------------------------------------------------------------
\* C24: in the monitor pipeline with at least one worker and no cancellation,
\* processWithContext never returns nil while a read error reported by
\* GetServices is still undelivered, on the reader's error channel or on
\* procErrChan.
C24_ReadErrorReturned ==
    (mode = "monitor" /\ numWorkers >= 1 /\ ~ctxDone
       /\ ppc \in {"returned", "exited"} /\ pret = "nil")
        => (\A k \in 1..Len(readErrChan) : readErrChan[k] # "read")
           /\ (\A k \in 1..Len(procErrChan) : procErrChan[k] # "read")

----------------------------------------------------------------------------
\* successCount + errorCount <= Outcomes sent <= dequeued <= admitted <= n
CounterChain ==
    /\ successCount + errorCount <= OutcomesSent
    /\ OutcomesSent <= Dequeued
    /\ Dequeued <= sentCount
    /\ sentCount <= N

\* C25: at every moment of a run SuccessCount + ErrorCount <= Outcomes sent <=
\* items dequeued <= items admitted <= n, and no step decreases any of these
\* counters.
C25_CounterChain ==
    /\ []CounterChain
    /\ [][/\ successCount' >= successCount
          /\ errorCount' >= errorCount
          /\ OutcomesSent' >= OutcomesSent
          /\ Dequeued' >= Dequeued
          /\ sentCount' >= sentCount]_vars

\* one Outcome counted, a second sent and not yet counted, both items dequeued
C25_Witness ==
    /\ successCount + errorCount = 1
    /\ OutcomesSent = 2
    /\ Dequeued = 2
    /\ errorCount = 1

----------------------------------------------------------------------------
\* C26: jobs and results never buffer more than n items, and whenever the source
\* is at its send on jobs, or a worker at its send on results, the queue has a
\* free slot: no send finds its queue full.
C26_QueuesNeverFull ==
    /\ Len(jobs) <= N
    /\ Len(results) <= N
    /\ spc \in {"enqueue", "send"} => Len(jobs) < JobsCap
    /\ \A w \in Workers : wpc[w] = "emit" => Len(results) < ResultsCap

\* a batch of at least two items all of whose Outcomes are buffered in results
\* at once, each having passed through jobs
C26_Witness ==
    /\ N >= 2
    /\ numWorkers >= 1
    /\ Len(results) = N
    /\ Dequeued = N

----------------------------------------------------------------------------
\* the input services with the target deprecation date and business line
TargetServices == {i \in 1..Len(services) : services[i]}

\* every goroutine of the monitor pipeline has finished, the coordinator at
\* least up to its last, non-blocking step
PipelineFinished ==
    /\ rpc = "exited"
    /\ \A w \in Workers : mpc[w] = "exited"
    /\ coord \in {"readerr", "exited"}
    /\ gpc = "drained"
    /\ vpc = "exited"

\* a step of some goroutine of the monitor pipeline or of its caller
PipelineStep ==
    \/ Reader
    \/ \E w \in Workers : FilterWorker(w)
    \/ Coordinator
    \/ Counter
    \/ Saver
    \/ Caller

\* C27: an uncancelled run of the monitor pipeline with at least one worker and
\* a readable input is never stuck before processWithContext returns, and when
\* it returns SaveResults has received exactly one Result for every target
\* service and none for any other service, resultCount equals their number,
\* and the goroutines of the pipeline have finished.
C27_ExactlyTheTargetServices ==
    (mode = "monitor" /\ numWorkers >= 1 /\ inputOK /\ ~ctxDone)
        => IF ppc \notin {"returned", "exited"} THEN ENABLED PipelineStep ELSE
           /\ \A k \in 1..Len(allResults) : allResults[k] \in TargetServices
           /\ \A i \in TargetServices :
                 Cardinality({k \in 1..Len(allResults) : allResults[k] = i}) = 1
           /\ resultCount = Cardinality(TargetServices)
           /\ pret = (IF outputOK \/ allResults = <<>> THEN "nil" ELSE "save")
           /\ PipelineFinished

\* two workers, a target service behind another service: the run returns nil
\* with the one Result saved
C27_Witness ==
    /\ mode = "monitor"
    /\ numWorkers = 2
    /\ services = <<FALSE, TRUE>>
    /\ ~ctxDone
    /\ ppc = "returned"
    /\ pret = "nil"
    /\ outputFile = <<2>>
    /\ resultCount = 1

----------------------------------------------------------------------------
\* a step of ProcessWithIntervals: the caller's cancellation, the source with
\* its ticker, a worker, the watcher or the collector
ServiceStep == NextPaced \/ SrcNewTicker

\* C28: from the same initial state (same batch, outcomes and interval, two
\* workers) every step the stand-alone pipeline of the notifier command takes
\* is a step of ProcessWithIntervals, and in every state it reaches every step
\* ProcessWithIntervals could take is a step of the stand-alone pipeline: the
\* two admit, dequeue, emit, close, count and return alike.
C28_StandaloneEquivalent ==
    /\ []~ENABLED (ServiceStep /\ ~NextCmd)
    /\ [][ServiceStep]_vars

\* the stand-alone pipeline has returned from an uncancelled run of two items,
\* one failed and one sent
C28_Witness ==
    /\ numWorkers = CmdNumWorkers
    /\ ~ctxDone
    /\ cpc = "returned"
    /\ ret = ProcessResult(1, 1)
    /\ retPath = "closed"

----------------------------------------------------------------------------
\* C29 (as stated): whenever BatchHandler calls ProcessWithIntervals, the
\* interval it passes is greater than 0 (2 s when interval_ms is 0 or absent)
\* and the worker count is in 1..10 (2 when workers is 0 or absent).
C29_UsableConfiguration ==
    hpc = "called" =>
        /\ call.interval > 0
        /\ req.IntervalMs = 0 => call.interval = 2 * Second
        /\ call.workers \in 1..10
        /\ req.Workers = 0 => call.workers = 2

----------------------------------------------------------------------------
\* StatusHandler: "pending_notifications": len(notifications) -
\* len(sentNotifications)
PendingNotifications == storageNotifications - storageSentNotifications

\* C30 (as stated): whenever no worker is inside ProcessEntity, the storage
\* holds at most as many SentNotifications as Notifications, and the
\* pending_notifications figure of StatusHandler is not negative.
C30_SentAfterNotification ==
    (\A w \in Workers : wpc[w] # "process") =>
        /\ storageSentNotifications <= storageNotifications
        /\ PendingNotifications >= 0

====
